---- MODULE Spec2Model ----
(***************************************************************************)
(* Model of scripts/auto_news.py: one run of main() loads the persisted    *)
(* seen set, filters the feed, ranks the candidates, then fetches,         *)
(* extracts, summarises and drafts each ranked item, and finally persists  *)
(* the seen set.  Runs follow one another on the same feed.                *)
(*                                                                         *)
(* Strings are modelled as TLA+ strings (ids, urls) or as tuples of        *)
(* one-character strings (titles, which slugify and split() look into).    *)
(* Texts are tuples of word tokens.  Instants are whole hours since the    *)
(* model's epoch; a UTC day has HoursPerDay hours.                         *)
(***************************************************************************)
EXTENDS Integers, Sequences, FiniteSets, TLC

\* ------------------------------------------------------------ bounds ----
\* items in the feed
MaxFeed == 2
\* largest configured max_posts
MaxPosts == 2
\* runs of main() in one behaviour
MaxRuns == 2
\* the configured min_words (the code's default is 80)
MinWordsCfg == 2
\* K of the seen-set bound, scaled down from 2000
SeenCap == 2

\* ------------------------------------------------- program constants ----
\* cfg.get("hours", 6)
Hours == 6
\* summarize_extract(text, target_words=300)
TargetWords == 300
\* target_words + 60
Tolerance == 60
\* if w < 5: continue
MinSentenceWords == 5
\* slugify(text, max_len=80)
SlugMaxLen == 80
\* slugify(origin["title"], 24)
TagMaxLen == 24
\* len(art_title.split()) >= 4
ArtTitleMinWords == 4
\* 6 <= title_len
BonusLo == 6
\* title_len <= 14
BonusHi == 14
HoursPerDay == 24
SecsPerHour == 3600
\* the instant of the first run
Now0 == 26

\* ------------------------------------------------------ sequence helpers
Take(s, n) == SubSeq(s, 1, IF n < Len(s) THEN n ELSE Len(s))

\* Python's s[:n], n of either sign
SliceTo(s, n) ==
    IF n >= 0 THEN Take(s, n)
    ELSE IF Len(s) + n > 0 THEN SubSeq(s, 1, Len(s) + n) ELSE <<>>

RECURSIVE Flatten(_)
Flatten(ss) == IF ss = <<>> THEN <<>> ELSE Head(ss) \o Flatten(Tail(ss))

Range(s) == {s[i] : i \in DOMAIN s}

\* hours that may pass between two runs
Ticks == {0, 1}

Max2(a, b) == IF a >= b THEN a ELSE b

\* ------------------------------------------------------------ characters
LowerAlnum == {"a", "b", "c", "d", "e", "f", "x", "y", "z", "w", "1"}
QuoteChars == {"'"}
SpaceChars == {" "}

ToLower(c) == IF c = "A" THEN "a" ELSE IF c = "N" THEN "n" ELSE c

\* html.unescape on one token: the entity becomes the character it names
Unescape(c) == IF c = "&amp;" THEN "&" ELSE c

RECURSIVE LStrip(_, _)
LStrip(s, cs) == IF s # <<>> /\ Head(s) \in cs THEN LStrip(Tail(s), cs) ELSE s

RECURSIVE RStrip(_, _)
RStrip(s, cs) ==
    IF s # <<>> /\ s[Len(s)] \in cs THEN RStrip(SubSeq(s, 1, Len(s) - 1), cs) ELSE s

Strip(s, cs) == RStrip(LStrip(s, cs), cs)

IsSlugChar(c) == c \in LowerAlnum \cup {"n"}

\* re.sub(r"[^a-z0-9]+", "-", text): every maximal run of other characters
\* becomes one "-"
RECURSIVE DashRuns(_, _)
DashRuns(s, inRun) ==
    IF s = <<>> THEN <<>>
    ELSE IF IsSlugChar(Head(s)) THEN <<Head(s)>> \o DashRuns(Tail(s), FALSE)
    ELSE IF inRun THEN DashRuns(Tail(s), TRUE)
    ELSE <<"-">> \o DashRuns(Tail(s), TRUE)

slugify(text, max_len) ==
    LET t1 == Strip([i \in DOMAIN text |-> ToLower(Unescape(text[i]))], SpaceChars)
        t2 == SelectSeq(t1, LAMBDA c : c \notin QuoteChars)
        t3 == Strip(DashRuns(t2, FALSE), {"-"})
        t4 == RStrip(Take(t3, max_len), {"-"})
    IN  IF t4 = <<>> THEN <<"p", "o", "s", "t">> ELSE t4

\* len(title.split()): the number of maximal runs of non-space characters
RECURSIVE WordCount(_, _)
WordCount(s, inWord) ==
    IF s = <<>> THEN 0
    ELSE IF Head(s) \in SpaceChars THEN WordCount(Tail(s), FALSE)
    ELSE (IF inWord THEN 0 ELSE 1) + WordCount(Tail(s), TRUE)

TitleWords(t) == WordCount(t, FALSE)

\* ---------------------------------------------------------------- titles
TitleSix == <<"A", " ", "b", " ", "c", " ", "d", " ", "e", " ", "f">>
TitleSixB == <<"a", " ", "b", "!", " ", "c", " ", "d", " ", "e", " ", "f">>
TitleOne == <<"N", "e", "w", "1">>
TitlePage == <<"x", " ", "y", " ", "z", " ", "w">>
TitlePageShort == <<"x", "&amp;", "y">>
TitleArticle == <<"a", "r", "t", "i", "c", "l", "e">>

\* ------------------------------------------------------------ timestamps
\* A raw timestamp value of a feed record: its shape and its number.
\*   none      the key is missing or null
\*   iso       an ISO-8601 string; v is the instant in hours
\*   secs_str  a string of 9 to 12 digits; v is epoch seconds
\*   secs_int  a number below 10^10; v is epoch seconds
\*   msec_int  a number above 10^10; v is epoch milliseconds / 1000
\*   garbage   a string that dateutil cannot parse
NoTime == -1
NoStamp == [shape |-> "none", v |-> 0]
Iso(h) == [shape |-> "iso", v |-> h]
SecsStr(h) == [shape |-> "secs_str", v |-> h * SecsPerHour]
SecsInt(h) == [shape |-> "secs_int", v |-> h * SecsPerHour]
MsecInt(h) == [shape |-> "msec_int", v |-> h * SecsPerHour]
Garbage == [shape |-> "garbage", v |-> 0]

as_dt(value) ==
    CASE value.shape = "none" -> NoTime
      [] value.shape = "secs_str" -> value.v \div SecsPerHour
      [] value.shape = "secs_int" -> value.v \div SecsPerHour
      [] value.shape = "msec_int" -> value.v \div SecsPerHour
      [] value.shape = "iso" -> value.v
      [] OTHER -> NoTime

TimeKeys == <<"published", "updated", "crawled", "timestampUsec", "crawlTimeMsec">>

RECURSIVE FirstTime(_, _)
FirstTime(item, k) ==
    IF k > Len(TimeKeys) THEN NoTime
    ELSE IF item[TimeKeys[k]].shape # "none" /\ as_dt(item[TimeKeys[k]]) # NoTime
         THEN as_dt(item[TimeKeys[k]])
         ELSE FirstTime(item, k + 1)

get_item_time(item) == FirstTime(item, 1)

\* ------------------------------------------------------------------ urls
HttpStrs == {"http://a", "http://b", "http://c"}
StartsWithHttp(s) == s \in HttpStrs

\* canonical / alternate are lists of hrefs (the href of the first entry is
\* the only one read); "" is a missing or empty string
FirstHref(arr) == IF arr # <<>> THEN arr[1] ELSE ""

choose_best_url(item) ==
    IF FirstHref(item.canonical) # "" THEN FirstHref(item.canonical)
    ELSE IF FirstHref(item.alternate) # "" THEN FirstHref(item.alternate)
    ELSE IF StartsWithHttp(item.originId) THEN item.originId
    ELSE IF StartsWithHttp(item.id) THEN item.id
    ELSE IF StartsWithHttp(item.url) THEN item.url
    ELSE ""

\* hashlib.sha1 of title + str(published or updated or ""): an injective
\* image of its input
Sha1(title, stamp) == <<"sha1", title, stamp>>

ItemPid(item) ==
    IF item.id # "" THEN <<item.id>>
    ELSE IF item.originId # "" THEN <<item.originId>>
    ELSE IF choose_best_url(item) # "" THEN <<choose_best_url(item)>>
    ELSE Sha1(item.title,
              IF item.published.shape # "none" THEN item.published
              ELSE item.updated)

\* ----------------------------------------------------------------- texts
\* Bundled html is a tuple of tokens: markup tokens and word tokens.
MarkupTokens == {"<p>", "</p>", "<script>js</script>", "<style>css</style>"}
StripHtml(h) == SelectSeq(h, LAMBDA t : t \notin MarkupTokens)

HtmlLong == <<"<p>", "b1", "b_2", "<script>js</script>", "b3", "b4", "</p>">>
HtmlShort == <<"<p>", "b1", "<script>js</script>", "<style>css</style>">>
HtmlSummaryLong == <<"s1", "s2", "<p>", "s3", "s4">>

\* A word ending a sentence
EndWords == {"p5.", "b9."}

\* sentence_split: the text cut after every sentence-ending word
RECURSIVE SplitAcc(_, _)
SplitAcc(words, cur) ==
    IF words = <<>> THEN (IF cur = <<>> THEN <<>> ELSE <<cur>>)
    ELSE IF Head(words) \in EndWords
         THEN <<Append(cur, Head(words))>> \o SplitAcc(Tail(words), <<>>)
         ELSE SplitAcc(Tail(words), Append(cur, Head(words)))

sentence_split(text) == SplitAcc(text, <<>>)

\* the loop of summarize_extract: sentences under MinSentenceWords words are
\* dropped, the others are taken until the count reaches target_words
RECURSIVE Accumulate(_, _, _)
Accumulate(sents, count, target_words) ==
    IF sents = <<>> THEN <<>>
    ELSE IF Len(Head(sents)) < MinSentenceWords
         THEN Accumulate(Tail(sents), count, target_words)
    ELSE IF count + Len(Head(sents)) >= target_words THEN <<Head(sents)>>
    ELSE <<Head(sents)>> \o
         Accumulate(Tail(sents), count + Len(Head(sents)), target_words)

summarize_extract(content, target_words) ==
    LET words == Flatten(Accumulate(sentence_split(content), 0, target_words))
    IN  IF Len(words) > target_words + Tolerance
        THEN Append(Take(words, target_words + Tolerance), "...")
        ELSE words

\* markdownify of plain text: the characters markdown reads are escaped
Md(words) == [i \in DOMAIN words |-> IF words[i] = "b_2" THEN "b\\_2" ELSE words[i]]

\* ----------------------------------------------------------- feed records
\* The keys main() and its helpers read from a raw feed record.  content and
\* summary are the html of item["content"]["content"] and
\* item["summary"]["content"]; origin is item["origin"]["title"].  An empty
\* value stands for a missing, null or empty one, which the code treats alike.
Blank ==
    [id |-> "", originId |-> "", title |-> <<>>,
     published |-> NoStamp, updated |-> NoStamp, crawled |-> NoStamp,
     timestampUsec |-> NoStamp, crawlTimeMsec |-> NoStamp,
     canonical |-> <<>>, alternate |-> <<>>, url |-> "",
     content |-> <<>>, summary |-> <<>>, origin |-> <<>>]

\* fresh, with a URL and long bundled content
ItA == [Blank EXCEPT !.id = "tag:1", !.title = TitleSix, !.published = Iso(25),
                     !.canonical = <<"http://a">>, !.content = HtmlLong,
                     !.origin = TitleOne]
\* fresh, another id with the date and the slug of ItA; short bundled content
ItB == [Blank EXCEPT !.id = "tag:2", !.title = TitleSixB,
                     !.published = SecsStr(25), !.alternate = <<"http://b">>,
                     !.content = HtmlShort, !.summary = HtmlSummaryLong]
\* older than the window
ItE == [Blank EXCEPT !.id = "tag:5", !.title = TitleSix, !.published = Iso(16),
                     !.originId = "http://b", !.content = HtmlLong]
\* fresh, no URL, no id: identified by the hash
ItF == [Blank EXCEPT !.published = SecsInt(23), !.content = HtmlLong]
\* no URL and no key that parses as an instant
ItG == [Blank EXCEPT !.id = "tag:7", !.title = TitleOne, !.published = Garbage,
                     !.content = HtmlLong]
\* a second record carrying the id of ItA, on the edge of the window and
\* dated by its second key
ItH == [Blank EXCEPT !.id = "tag:1", !.title = TitleOne, !.published = Garbage,
                     !.updated = MsecInt(20), !.url = "http://c",
                     !.summary = HtmlSummaryLong]

ItemSet == {ItA, ItB, ItE, ItF, ItG, ItH}

Feeds == UNION {[1..n -> ItemSet] : n \in 0..MaxFeed}

\* ----------------------------------------------------------------- pages
\* What a fetched page gives each extraction strategy: the strategy raises,
\* or returns a text (possibly empty).  title is the page's <title>.
Gives(t) == [raises |-> FALSE, text |-> t]
Raises == [raises |-> TRUE, text |-> <<>>]

PageLong == <<"p1", "p2", "p3", "p4", "p5.", "p6">>
PageThin == <<"p1">>
PageAll == <<"nav", "p1", "p2", "p3", "p4", "p5.", "p6", "foot">>

PgLong == [traf |-> Gives(PageLong), read |-> Gives(PageLong),
           soup |-> Gives(PageAll), title |-> TitlePage]
PgThin == [traf |-> Gives(<<>>), read |-> Gives(PageThin),
           soup |-> Gives(PageAll), title |-> TitlePageShort]

\* fetch_html returned None
NoHtml == [traf |-> Raises, read |-> Raises, soup |-> Raises, title |-> <<"None">>]

PageSet == {PgLong, PgThin}

\* the outcomes of fetch_html(url)
FetchOutcomes == PageSet \cup {NoHtml}

\* trafilatura and readability are optional imports
LibSets == {[traf |-> TRUE, doc |-> TRUE], [traf |-> FALSE, doc |-> FALSE]}

extract_content(html_text, lib) ==
    IF html_text # NoHtml /\ lib.traf /\ ~html_text.traf.raises
       /\ html_text.traf.text # <<>>
    THEN [title |-> html_text.title, text |-> html_text.traf.text]
    ELSE IF html_text # NoHtml /\ lib.doc /\ ~html_text.read.raises
    THEN [title |-> html_text.title, text |-> html_text.read.text]
    ELSE IF html_text # NoHtml /\ ~html_text.soup.raises
    THEN [title |-> html_text.title, text |-> html_text.soup.text]
    ELSE [title |-> <<>>, text |-> <<>>]

\* --------------------------------------------------------------- ranking
AgeHours(item, t) ==
    LET published == IF get_item_time(item) # NoTime THEN get_item_time(item) ELSE t
    IN  Max2(0, t - published)

\* twice the length bonus
Bonus2(item) ==
    LET title_len == TitleWords(Strip(item.title, SpaceChars))
    IN  IF BonusLo <= title_len /\ title_len <= BonusHi THEN 1 ELSE 0

\* score_item(i, t) > score_item(j, t), with 100/(1+age) + bonus compared
\* after multiplying both sides by 2 (1+age_i) (1+age_j)
ScoreGreater(i, j, t) ==
    LET ai == 1 + AgeHours(i, t)
        aj == 1 + AgeHours(j, t)
    IN  200 * aj + Bonus2(i) * ai * aj > 200 * ai + Bonus2(j) * ai * aj

\* sorted(candidates, key=score, reverse=True): a stable sort, so a candidate
\* goes after every earlier candidate whose score is not smaller
RECURSIVE InsertDesc_Unstable(_, _, _)
InsertDesc_Unstable(sorted, c, t) ==
    IF sorted = <<>> THEN <<c>>
    ELSE IF ~ScoreGreater(Head(sorted).item, c.item, t) THEN <<c>> \o sorted
    ELSE <<Head(sorted)>> \o InsertDesc_Unstable(Tail(sorted), c, t)

RECURSIVE InsertDesc(_, _, _)
InsertDesc(sorted, c, t) ==
    IF sorted = <<>> THEN <<c>>
    ELSE IF ScoreGreater(c.item, Head(sorted).item, t) THEN <<c>> \o sorted
    ELSE <<Head(sorted)>> \o InsertDesc(Tail(sorted), c, t)

RECURSIVE SortedDesc(_, _, _)
SortedDesc(cands, k, t) ==
    IF k = 0 THEN <<>> ELSE InsertDesc(SortedDesc(cands, k - 1, t), cands[k], t)

Rank_NoSlice(cands, t, max_posts) == SortedDesc(cands, Len(cands), t)

Rank(cands, t, max_posts) == SliceTo(SortedDesc(cands, Len(cands), t), max_posts)

\* ------------------------------------------------------------ seen file
\* state/seen.json: missing, a JSON list, an object with a "seen" key, or
\* something json.loads rejects
load_seen(file) ==
    IF file.shape \in {"list", "dict"} THEN file.ids ELSE {}

save_seen(ids) == [shape |-> "list", ids |-> ids]

\* ------------------------------------------------ the filter loop of main
\* The loop over items[k..]: acc.seen is the seen set so far, acc.cands the
\* candidates so far.
RECURSIVE FilterFrom(_, _, _, _)
FilterFrom(items, k, cutoff, acc) ==
    IF k > Len(items) THEN acc
    ELSE LET it == items[k]
             pid == ItemPid(it)
             published == get_item_time(it)
             url == choose_best_url(it)
         IN  IF pid \in acc.seen THEN FilterFrom(items, k + 1, cutoff, acc)
             ELSE IF published = NoTime \/ published < cutoff
                  THEN FilterFrom(items, k + 1, cutoff, acc)
             ELSE IF url = ""
                  THEN FilterFrom(items, k + 1, cutoff,
                                  [acc EXCEPT !.seen = @ \cup {pid}])
             ELSE FilterFrom(items, k + 1, cutoff,
                      [acc EXCEPT !.cands = Append(@,
                          [pid |-> pid, item |-> it,
                           published |-> published, url |-> url])])

Candidates_NoCutoff(items, seen0, t, hours) ==
    FilterFrom(items, 1, 0, [seen |-> seen0, cands |-> <<>>])

Candidates(items, seen0, t, hours) ==
    FilterFrom(items, 1, t - hours, [seen |-> seen0, cands |-> <<>>])

\* ----------------------------------------------------------------- state
VARIABLES
    feed,       \* the items the feed URL serves
    cfg,        \* config.yaml: max_posts, min_words, hours, dry
    lib,        \* which optional extraction libraries import
    seenFile,   \* state/seen.json
    drafts,     \* the drafts directory: file name -> file
    now,        \* the instant of the current run
    runNo,      \* runs started so far
    pc,         \* "idle", "loop", "done", "failed" (exception), "killed"
    seen,       \* main's seen set
    ranked,     \* main's ranked list
    idx,        \* position of the loop over ranked
    created,    \* main's created list
    log,        \* history: what happened to each ranked item of this run
    prevOk,     \* history: the previous run completed and was not dry
    xin,        \* the html handed to extract_content called on its own
    xout        \* what that call returned

vars == <<feed, cfg, lib, seenFile, drafts, now, runNo, pc, seen, ranked, idx,
          created, log, prevOk, xin, xout>>

Configs == [max_posts : 0..MaxPosts, min_words : {MinWordsCfg},
            hours : {Hours}, dry : BOOLEAN]

SeenFiles ==
    {[shape |-> "absent", ids |-> {}],
     [shape |-> "corrupt", ids |-> {<<"tag:1">>}],
     [shape |-> "dict", ids |-> {<<"tag:1">>, <<"tag:9">>}]}

\* extract_content has not been called on its own
NoResult == [done |-> FALSE, title |-> <<>>, text |-> <<>>]

Init ==
    /\ feed \in Feeds
    /\ cfg \in Configs
    /\ lib \in LibSets
    /\ seenFile \in SeenFiles
    /\ drafts = <<>>
    /\ now = Now0
    /\ runNo = 0
    /\ pc = "idle"
    /\ seen = {}
    /\ ranked = <<>>
    /\ idx = 1
    /\ created = <<>>
    /\ log = <<>>
    /\ prevOk = FALSE
    /\ xin = NoHtml
    /\ xout = NoResult

Between == pc \in {"idle", "done", "failed", "killed"}

\* main() up to the ranking: load the seen set, fetch the feed, filter, rank
StartRun ==
    /\ Between
    /\ runNo < MaxRuns
    /\ \E tick \in Ticks :
         /\ now' = IF runNo = 0 THEN now ELSE now + tick
         /\ LET c == Candidates(feed, load_seen(seenFile), now', cfg.hours)
            IN  /\ seen' = c.seen
                /\ ranked' = Rank(c.cands, now', cfg.max_posts)
    /\ runNo' = runNo + 1
    /\ pc' = "loop"
    /\ idx' = 1
    /\ created' = <<>>
    /\ log' = <<>>
    /\ prevOk' = (pc = "done" /\ ~cfg.dry)
    /\ UNCHANGED <<feed, cfg, lib, seenFile, drafts, xin, xout>>

\* requests.get(feed_url).json() raises: main ends with the exception
FeedError ==
    /\ Between
    /\ runNo < MaxRuns
    /\ \E tick \in Ticks : now' = IF runNo = 0 THEN now ELSE now + tick
    /\ runNo' = runNo + 1
    /\ pc' = "failed"
    /\ seen' = load_seen(seenFile)
    /\ ranked' = <<>>
    /\ idx' = 1
    /\ created' = <<>>
    /\ log' = <<>>
    /\ prevOk' = (pc = "done" /\ ~cfg.dry)
    /\ UNCHANGED <<feed, cfg, lib, seenFile, drafts, xin, xout>>

\* item["content"]["content"], else item["summary"]["content"]
FallbackHtml(item) == IF item.content # <<>> THEN item.content ELSE item.summary

\* the text main() summarises: the extracted text, or the bundled text when
\* the extracted one is thin and the bundled one is not
ChooseText_NoFallback(text, item, min_words) == text

ChooseText(text, item, min_words) ==
    IF Len(text) < min_words /\ FallbackHtml(item) # <<>>
       /\ Len(StripHtml(FallbackHtml(item))) >= min_words
    THEN StripHtml(FallbackHtml(item))
    ELSE text

ChooseTitle(item, art_title) ==
    IF art_title # <<>> /\ TitleWords(art_title) >= ArtTitleMinWords
    THEN art_title
    ELSE Strip(item.title, SpaceChars)

Summary(text, min_words) ==
    LET summary_txt == summarize_extract(text, TargetWords)
    IN  IF summary_txt = <<>> \/ Len(summary_txt) < min_words
        THEN Take(text, Max2(TargetWords, min_words + 40))
        ELSE summary_txt

DraftName(title, date) ==
    <<date \div HoursPerDay, slugify(IF title = <<>> THEN TitleArticle ELSE title, SlugMaxLen)>>

\* the file write_draft writes; pid is not in the file, it records which
\* item the file was written for
DraftFile(pid, title, date, url, summary_md, tags) ==
    [pid |-> pid, title |-> title, date |-> date, source |-> url,
     tags |-> tags, header |-> <<title, url>>, body |-> summary_md]

Tags(item) == IF item.origin # <<>> THEN <<slugify(item.origin, TagMaxLen)>> ELSE <<>>

NoName == <<-1, <<>>>>

\* history of one pass of the loop: the ranked entry, whether the fetch
\* succeeded, the extracted text, the text chosen, what became of the item
\* ("short", "dry", "draft", "write_error") and the body handed to write_draft
LogEntry(r, html_text, text, outcome, fname, body) ==
    [pid |-> r.pid, item |-> r.item, published |-> r.published,
     fetched |-> html_text # NoHtml,
     extracted |-> extract_content(html_text, lib).text, text |-> text,
     outcome |-> outcome, fname |-> fname, body |-> body]

\* one pass of the loop over ranked whose text is below min_words
ItemTooShort(r, html_text) ==
    LET ext == extract_content(html_text, lib)
        text == ChooseText(ext.text, r.item, cfg.min_words)
    IN  /\ Len(text) < cfg.min_words
        /\ seen' = seen \cup {r.pid}
        /\ idx' = idx + 1
        /\ log' = Append(log, LogEntry(r, html_text, text, "short", NoName, <<>>))
        /\ UNCHANGED <<pc, created, drafts>>

\* one pass of the loop that reaches write_draft; written tells whether
\* path.write_text succeeded
ItemDrafted(r, html_text, written) ==
    LET ext == extract_content(html_text, lib)
        text == ChooseText(ext.text, r.item, cfg.min_words)
        title == ChooseTitle(r.item, ext.title)
        summary_md == Md(Summary(text, cfg.min_words))
        fname == DraftName(title, r.published)
        file == DraftFile(r.pid, title, r.published, r.url, summary_md, Tags(r.item))
    IN  /\ Len(text) >= cfg.min_words
        /\ IF cfg.dry
           THEN /\ seen' = seen \cup {r.pid}
                /\ idx' = idx + 1
                /\ log' = Append(log, LogEntry(r, html_text, text, "dry", fname, summary_md))
                /\ UNCHANGED <<pc, created, drafts>>
           ELSE IF written
           THEN /\ drafts' = [f \in DOMAIN drafts \cup {fname} |->
                                 IF f = fname THEN file ELSE drafts[f]]
                /\ created' = Append(created, fname)
                /\ seen' = seen \cup {r.pid}
                /\ idx' = idx + 1
                /\ log' = Append(log, LogEntry(r, html_text, text, "draft", fname, summary_md))
                /\ UNCHANGED pc
           ELSE /\ pc' = "failed"
                /\ log' = Append(log, LogEntry(r, html_text, text, "write_error", fname, summary_md))
                /\ UNCHANGED <<seen, idx, created, drafts>>

ProcessItem ==
    /\ pc = "loop"
    /\ idx <= Len(ranked)
    /\ \E html_text \in FetchOutcomes, written \in BOOLEAN :
         \/ ItemTooShort(ranked[idx], html_text)
         \/ ItemDrafted(ranked[idx], html_text, written)
    /\ UNCHANGED <<feed, cfg, lib, seenFile, now, runNo, ranked, prevOk, xin, xout>>

FinishRun_AlwaysSave ==
    /\ pc = "loop"
    /\ idx > Len(ranked)
    /\ seenFile' = save_seen(seen)
    /\ pc' = "done"
    /\ UNCHANGED <<feed, cfg, lib, drafts, now, runNo, seen, ranked, idx,
                   created, log, prevOk, xin, xout>>

\* the end of main(): the seen set is saved unless the run is dry
FinishRun ==
    /\ pc = "loop"
    /\ idx > Len(ranked)
    /\ seenFile' = IF cfg.dry THEN seenFile ELSE save_seen(seen)
    /\ pc' = "done"
    /\ UNCHANGED <<feed, cfg, lib, drafts, now, runNo, seen, ranked, idx,
                   created, log, prevOk, xin, xout>>

\* the process is interrupted between two passes of the loop
Kill ==
    /\ pc = "loop"
    /\ pc' = "killed"
    /\ UNCHANGED <<feed, cfg, lib, seenFile, drafts, now, runNo, seen, ranked,
                   idx, created, log, prevOk, xin, xout>>

Next == StartRun \/ FeedError \/ ProcessItem \/ FinishRun \/ Kill

Spec == Init /\ [][Next]_vars

TypeOK ==
    /\ pc \in {"idle", "loop", "done", "failed", "killed"}
    /\ runNo \in 0..MaxRuns
    /\ idx \in 1..(Len(ranked) + 1)

\* ---------------------------------------------------------------- claims
RunOver == pc \in {"done", "failed", "killed"}

LogPids(outcomes) == {log[k].pid : k \in {j \in DOMAIN log : log[j].outcome \in outcomes}}

\* C1: a run that follows a completed, non-dry run on the same feed and
\* reads the seen set that run saved creates no draft.
C1_SecondRunCreatesNothing ==
    (pc \in {"loop", "done"} /\ prevOk) => created = <<>>

\* C2: an item whose fetch failed and that was skipped in a completed,
\* non-dry run is not in the seen set the run saves.
C2_FetchFailureNotSeen ==
    (pc = "done" /\ ~cfg.dry) =>
        \A k \in DOMAIN log :
            (/\ ~log[k].fetched
             /\ log[k].outcome = "short"
             /\ \A j \in DOMAIN log : j # k => log[j].pid # log[k].pid)
            => log[k].pid \notin seenFile.ids

C4_Fresh ==
    /\ \A k \in DOMAIN ranked :
          /\ get_item_time(ranked[k].item) # NoTime
          /\ ranked[k].published = get_item_time(ranked[k].item)
          /\ now - ranked[k].published <= cfg.hours
    /\ \A k \in DOMAIN log :
          /\ get_item_time(log[k].item) # NoTime
          /\ now - get_item_time(log[k].item) <= cfg.hours
          /\ log[k].outcome = "draft" => log[k].fname[1] = get_item_time(log[k].item) \div HoursPerDay

\* C4 witness: a feed with an item no key of which parses and an item on the
\* edge of the window, for which a draft was written.
C4_Witness ==
    /\ \E i \in DOMAIN feed : get_item_time(feed[i]) = NoTime
    /\ \E k \in DOMAIN log :
          /\ log[k].outcome = "draft"
          /\ now - get_item_time(log[k].item) = cfg.hours

\* C5: after a completed, non-dry run the saved seen set holds the id of
\* every feed item that has no resolvable URL or no resolvable date.
C5_PermanentFailuresSeen ==
    (pc = "done" /\ ~cfg.dry) =>
        \A i \in DOMAIN feed :
            (choose_best_url(feed[i]) = "" \/ get_item_time(feed[i]) = NoTime)
            => ItemPid(feed[i]) \in seenFile.ids

\* C6: when the write of a draft fails the run goes on to its end, and the
\* ids of the items completed before are saved while the id of the failed
\* item is not added.
C6_WriteFailureRecovered ==
    (RunOver /\ \E k \in DOMAIN log : log[k].outcome = "write_error") =>
        /\ pc = "done"
        /\ ~cfg.dry => LogPids({"short", "draft"}) \subseteq seenFile.ids

\* C7: when a non-dry run is interrupted, the ids of the items it had
\* finished with are in the saved seen set.
C7_CrashKeepsProgress ==
    (pc = "killed" /\ ~cfg.dry) =>
        LogPids({"short", "draft"}) \subseteq seenFile.ids

\* C8: the saved seen set never holds more than K ids.
C8_SeenBounded ==
    Cardinality(seenFile.ids) <= SeenCap

\* C9: a draft file, once written, stays the file of the item it was
\* written for: no step removes it or replaces it by the draft of an item
\* with another id.
C9_NoForeignOverwrite ==
    [][\A f \in DOMAIN drafts :
          /\ f \in DOMAIN drafts'
          /\ drafts'[f].pid = drafts[f].pid]_vars

\* C10: a ranked item whose extracted text is under min_words and whose
\* bundled html, stripped, has at least min_words words is not given up on:
\* the text summarised is the bundled text, and a non-dry pass whose write
\* succeeds writes one draft whose body is made of words of the bundled
\* text.  An item is given up on only when both texts are under min_words.
BundledText(item) == StripHtml(FallbackHtml(item))

C11_StaleItemsSeen ==
    (pc = "done" /\ ~cfg.dry) =>
        \A i \in DOMAIN feed :
            (/\ get_item_time(feed[i]) # NoTime
             /\ now - get_item_time(feed[i]) > cfg.hours)
            => ItemPid(feed[i]) \in seenFile.ids

\* C12: no step of a dry run changes the drafts directory or the seen file.
C12_DryWritesNothing ==
    [][cfg.dry => (drafts' = drafts /\ seenFile' = seenFile)]_vars

\* C12 witness: a dry run is over, it went through write_draft for an item
\* and added ids to its seen set, and the directory is empty and the file is
\* without those ids.
C12_Witness ==
    /\ cfg.dry
    /\ pc = "done"
    /\ \E k \in DOMAIN log : log[k].outcome = "dry"
    /\ seen # load_seen(seenFile)
    /\ drafts = <<>>

\* C14: the ranked list is the first max_posts candidates in the order of
\* the score 100/(1+ageHours), plus 0.5 for a title of 6 to 14 words, highest
\* first, candidates of equal score in feed order.
\* The score times 1680, a whole number for the ages inside the window.
ClaimScore(c, t) ==
    (168000 \div (1 + Max2(0, t - c.published)))
    + (IF TitleWords(c.item.title) >= 6 /\ TitleWords(c.item.title) <= 14
       THEN 840 ELSE 0)

\* the place of candidate i in that order
ClaimPlace(cands, i, t) ==
    1 + Cardinality({j \in DOMAIN cands :
                        ClaimScore(cands[j], t) > ClaimScore(cands[i], t)})
      + Cardinality({j \in 1..(i - 1) :
                        ClaimScore(cands[j], t) = ClaimScore(cands[i], t)})

RunCandidates == Candidates(feed, load_seen(seenFile), now, cfg.hours).cands

C14_RankingOrder ==
    pc = "loop" =>
        LET cands == RunCandidates
        IN  /\ Len(ranked) = (IF Len(cands) < cfg.max_posts
                              THEN Len(cands) ELSE cfg.max_posts)
            /\ \A i \in DOMAIN cands :
                  LET place == ClaimPlace(cands, i, now)
                  IN  place <= cfg.max_posts => ranked[place] = cands[i]

\* C14 witness: two different candidates of equal score and room for one;
\* the one ranked is the first of the feed.
C14_Witness ==
    /\ pc = "loop"
    /\ cfg.max_posts = 1
    /\ Len(RunCandidates) = 2
    /\ RunCandidates[1] # RunCandidates[2]
    /\ ClaimScore(RunCandidates[1], now) = ClaimScore(RunCandidates[2], now)
    /\ ranked = <<RunCandidates[1]>>

\* C14 second witness: the later candidate of the feed has the higher score
\* and is ranked first.
C14_WitnessReorder ==
    /\ pc = "loop"
    /\ Len(RunCandidates) = 2
    /\ ClaimScore(RunCandidates[2], now) > ClaimScore(RunCandidates[1], now)
    /\ ranked = <<RunCandidates[2], RunCandidates[1]>>

\* C15: a draft is written at most once for an id: no run writes drafts for
\* two ranked entries of one id, no run writes a draft for an id of the seen
\* set it loaded, and a completed non-dry run saves the id of every item it
\* wrote a draft for.
C15_DraftedOncePerId ==
    /\ \A j, k \in DOMAIN log :
          (j # k /\ log[j].outcome = "draft" /\ log[k].outcome = "draft")
          => log[j].pid # log[k].pid
    /\ pc = "loop" => LogPids({"draft"}) \cap load_seen(seenFile) = {}
    /\ (pc = "done" /\ ~cfg.dry) => LogPids({"draft"}) \subseteq seenFile.ids

\* ------------------------------------------- extract_content on its own
\* What each strategy may give on a page: it raises, returns nothing, a text
\* under min_words or a text over it.  The words tell the strategies apart.
TrafOuts == {Raises, Gives(<<>>), Gives(<<"t1">>),
             Gives(<<"t1", "t2", "t3", "t4">>)}
ReadOuts == {Raises, Gives(<<>>), Gives(<<"r1">>),
             Gives(<<"r1", "r2", "r3", "r4">>)}
SoupOuts == {Raises, Gives(<<>>), Gives(<<"s1">>),
             Gives(<<"s1", "s2", "s3", "s4">>)}

ExtractInputs ==
    [traf : TrafOuts, read : ReadOuts, soup : SoupOuts,
     title : {<<>>, TitlePage}] \cup {NoHtml}

AllLibs == [traf : BOOLEAN, doc : BOOLEAN]

InitExtract ==
    /\ xin \in ExtractInputs
    /\ lib \in AllLibs
    /\ xout = NoResult
    /\ cfg = [max_posts |-> 0, min_words |-> MinWordsCfg, hours |-> Hours,
              dry |-> FALSE]
    /\ feed = <<>>
    /\ seenFile = [shape |-> "absent", ids |-> {}]
    /\ drafts = <<>>
    /\ now = Now0
    /\ runNo = 0
    /\ pc = "idle"
    /\ seen = {}
    /\ ranked = <<>>
    /\ idx = 1
    /\ created = <<>>
    /\ log = <<>>
    /\ prevOk = FALSE

\* one call of extract_content(html_text)
Extract ==
    /\ ~xout.done
    /\ xout' = [done |-> TRUE,
                title |-> extract_content(xin, lib).title,
                text |-> extract_content(xin, lib).text]
    /\ UNCHANGED <<feed, cfg, lib, seenFile, drafts, now, runNo, pc, seen,
                   ranked, idx, created, log, prevOk, xin>>

NextExtract == Extract

SpecExtract == InitExtract /\ [][NextExtract]_vars

\* C13: extract_content returns the text of the first strategy, in the
\* order main-content extraction, readability, tag-stripped page, whose text
\* has at least min_words words; when no strategy has one, what it returns
\* is under min_words.  A strategy whose library is not installed, or that
\* raises, has no text.
Usable(out, installed, min_words) ==
    installed /\ ~out.raises /\ Len(out.text) >= min_words

C13_FirstUsableStrategy ==
    (xout.done /\ xin # NoHtml) =>
        IF Usable(xin.traf, lib.traf, cfg.min_words)
        THEN xout.text = xin.traf.text
        ELSE IF Usable(xin.read, lib.doc, cfg.min_words)
        THEN xout.text = xin.read.text
        ELSE IF Usable(xin.soup, TRUE, cfg.min_words)
        THEN xout.text = xin.soup.text
        ELSE Len(xout.text) < cfg.min_words

====
